---- MODULE Spec2Model ----
(***************************************************************************)
(* Model of hdl21/netlist/verilog.py: the structural-Verilog netlister.    *)
(*                                                                         *)
(* Text is modelled as a sequence of tokens (each token a string), so that *)
(* an f-string such as f".{pname}({conn}){comma} " becomes the sequence    *)
(* <<".", pname, "(">> \o conn \o <<")", comma, " ">>.  A written line is  *)
(* a record [indent, text] appended to `lines`.                            *)
(***************************************************************************)
EXTENDS Integers, Sequences, FiniteSets, TLC

\* ------------------------------------------------------------------ bounds
MaxPorts == 2
MaxParams == 2
MaxSignals == 2
MaxWidth == 2
MaxInsts == 2
MaxOverrides == 2
MaxDefs == 2
MaxBit == 3
MaxParts == 3
MaxDepth == 2

VARIABLES
    mut,           \* the Module handed to the netlister (fixed during a pass)
    module_names,  \* self.module_names: canonical names already defined
    pmodules,      \* self.pmodules: module.name -> Module
    lines,         \* the writer's output, one record per writeln
    indent,        \* self.indent
    pc,            \* position inside write_module_definition / write_instance
    cur,           \* the `module` argument of the running write_module_definition
    num,           \* loop index `num` (1-based) of the running enumerate loop
    inum,          \* index of the instance being written (1-based)
    err,           \* the exception raised, NoErr while none
    defs,          \* number of write_module_definition calls made in this pass
    fconn,         \* formatter input (a Connection)
    fout           \* formatter output, None while not formatted

vars == <<mut, module_names, pmodules, lines, indent, pc, cur, num, inum, err,
          defs, fconn, fout>>

None == <<>>
NoErr == [type |-> "none", msg |-> <<>>]
RuntimeError(msg) == [type |-> "RuntimeError", msg |-> msg]
ValueError == [type |-> "ValueError", msg |-> <<>>]

Ok(text) == [ok |-> TRUE, val |-> text, err |-> NoErr]
Raise(e) == [ok |-> FALSE, val |-> <<>>, err |-> e]

Last(s) == s[Len(s)]

\* ------------------------------------------------------------ the IR
Signal(name, width) == [name |-> name, width |-> width]
Port(name, width, direction) == [signal |-> Signal(name, width), direction |-> direction]
Parameter(kind, default) == [kind |-> kind, default |-> default]

\* Connection: the `stype` oneof of sig / slice / concat
ConnSig(name) == [stype |-> "sig", sig |-> name, top |-> 0, bot |-> 0, parts |-> <<>>]
ConnSlice(name, top, bot) == [stype |-> "slice", sig |-> name, top |-> top, bot |-> bot, parts |-> <<>>]
ConnConcat(parts) == [stype |-> "concat", sig |-> "", top |-> 0, bot |-> 0, parts |-> parts]

\* ------------------------------------------------- connection formatting
RECURSIVE Join(_, _)
Join(parts, sep) ==
    IF Len(parts) = 0 THEN <<>>
    ELSE IF Len(parts) = 1 THEN parts[1]
    ELSE parts[1] \o sep \o Join(Tail(parts), sep)

format_signal_ref(psig) == <<psig>>

format_signal_slice(pslice) ==
    IF pslice.top = pslice.bot
    THEN <<pslice.sig, "[", ToString(pslice.top), "]">>
    ELSE <<pslice.sig, "[", ToString(pslice.top), ":", ToString(pslice.bot), "]">>

RECURSIVE format_connection(_)
\* Variant: the parts joined last to first
format_concat_reversed(pconc) ==
    LET n == Len(pconc.parts)
        parts == [i \in 1..n |-> format_connection(pconc.parts[n + 1 - i])]
    IN  <<"{">> \o Join(parts, <<", ">>) \o <<"}">>

format_concat(pconc) ==
    LET parts == [i \in 1..Len(pconc.parts) |-> format_connection(pconc.parts[i])]
    IN  <<"{">> \o Join(parts, <<", ">>) \o <<"}">>

format_connection(pconn) ==
    IF pconn.stype = "sig" THEN format_signal_ref(pconn.sig)
    ELSE IF pconn.stype = "slice" THEN format_signal_slice(pconn)
    ELSE format_concat(pconn)

\* -------------------------------------------------- declaration formatters
format_signal_decl(psig) ==
    <<"wire">>
    \o (IF psig.width > 1 THEN <<" [", ToString(psig.width - 1), ":0]">> ELSE <<>>)
    \o <<" ", psig.name>>

\* port_type_to_str, keyed by the names of the Port.Direction values
DirKnown == {"INPUT", "OUTPUT", "INOUT", "NONE"}
port_type_to_str ==
    [d \in DirKnown |->
        CASE d = "INPUT" -> "input"
          [] d = "OUTPUT" -> "output"
          [] d = "INOUT" -> "inout"
          [] d = "NONE" -> "NO_DIRECTION"]

\* Variant: the direction looked up but not checked
format_port_decl_no_check(pport) ==
    LET dir_ == IF pport.direction \in DirKnown
                THEN port_type_to_str[pport.direction] ELSE "None"
    IN  Ok(<<dir_, " ">> \o format_signal_decl(pport.signal))

format_port_decl(pport) ==
    LET dir_ == IF pport.direction \in DirKnown
                THEN port_type_to_str[pport.direction] ELSE "None"
    IN  IF dir_ = "None"
        THEN Raise(RuntimeError(<<"Invalid Verilog netlisting for unknown Port direction ",
                                  pport.direction>>))
        ELSE IF dir_ = "NO_DIRECTION"
        THEN Raise(RuntimeError(<<"Invalid Verilog netlisting for undirected Port ",
                                  pport.signal.name>>))
        ELSE Ok(<<dir_, " ">> \o format_signal_decl(pport.signal))

format_param_type(pparam) ==
    IF pparam.kind = "integer" THEN Ok(<<"longint">>)
    ELSE IF pparam.kind = "double" THEN Ok(<<"real">>)
    ELSE IF pparam.kind = "string" THEN Ok(<<"string">>)
    ELSE Raise(ValueError)

\* Netlister.get_param_default: the literal default, None when absent
get_param_default(param) == param.default

\* Netlister.get_param_value: the literal of an override
get_param_value(pparam) == pparam.default

format_param_decl(name, param) ==
    LET rv == <<"parameter ", name>>
        default == get_param_default(param)
    IN  IF default # None THEN Ok(rv \o <<" = ">> \o default) ELSE Ok(rv)

\* ------------------------------------------------------------ the inputs
Module(name, params, ports, signals, instances) ==
    [name |-> name, default_parameters |-> params, ports |-> ports,
     signals |-> signals, instances |-> instances]
Instance(name, ref, params, conns) ==
    [name |-> name, module |-> ref, parameters |-> params, connections |-> conns]

Directions == DirKnown \cup {"7"}
PortNm(i) == "p" \o ToString(i)
ParamNm(i) == "k" \o ToString(i)
SigNm(i) == "s" \o ToString(i)
InstNm(i) == "i" \o ToString(i)
WidthOf(i) == ((i - 1) % MaxWidth) + 1

ParamOptions ==
    { Parameter("integer", <<"1">>), Parameter("integer", None),
      Parameter("double", <<"1.5">>), Parameter("string", <<"s">>),
      Parameter("bool", <<"True">>), Parameter("none", None) }

\* Injective sequences of length at most n over S (insertion orders of a mapping)
Orders(S, n) ==
    UNION { { f \in [1..k -> S] : \A i, j \in 1..k : i # j => f[i] # f[j] } : k \in 0..n }

InputPorts(k) == [i \in 1..k |-> Port(PortNm(i), WidthOf(i), "INPUT")]

ConnPool ==
    << ConnSig("a"), ConnSlice("b", 1, 0),
       ConnConcat(<<ConnSlice("a", 3, 2), ConnSig("b"), ConnSlice("c", 0, 0)>>),
       ConnSlice("c", 2, 2) >>
ConnOf(i) == ConnPool[((i - 1) % Len(ConnPool)) + 1]
\* Connection keys: the possible port names and one name that is never a port
ConnKeys == { [key |-> PortNm(i), conn |-> ConnOf(i)] : i \in 1..MaxPorts }
            \cup { [key |-> "x", conn |-> ConnSig("z")] }
ConnOrders ==
    { c \in Orders(ConnKeys, MaxPorts + 1) :
        \A i, j \in 1..Len(c) : i # j => c[i].key # c[j].key }

OverrideNames == {"w", "l", "m"}
Overrides ==
    { [i \in 1..Len(o) |-> [name |-> o[i], value |-> Parameter("integer", <<ToString(i)>>)]] :
        o \in Orders(OverrideNames, MaxOverrides) }

\* An ExternalModule: only its name and declared ports are known
Ext == Module("ext", <<>>, <<Port("e1", 1, "INPUT")>>, <<>>, <<>>)
ExternalModules == {Ext}
\* A second Module of the circuit, defined by the same pass
Aux == Module("top", <<>>, <<Port("t1", 2, "INOUT")>>, <<Signal("n1", 2)>>, <<>>)

AllConns == << [key |-> "t1", conn |-> ConnSig("a")], [key |-> "e1", conn |-> ConnSlice("b", 1, 1)] >>
Refs == {"ext", "top", "nomod"}

PortFamily ==
    { Module("amp", <<>>, [i \in 1..Len(d) |-> Port(PortNm(i), WidthOf(i), d[i])], <<>>, <<>>) :
        d \in UNION { [1..k -> Directions] : k \in 0..MaxPorts } }
ParamFamily ==
    { Module("amp", [i \in 1..Len(o) |-> [name |-> ParamNm(i), param |-> o[i]]], <<>>, <<>>, <<>>) :
        o \in UNION { [1..k -> ParamOptions] : k \in 0..MaxParams } }
SignalFamily ==
    { Module("amp", <<>>, <<>>, [i \in 1..Len(w) |-> Signal(SigNm(i), w[i])], <<>>) :
        w \in UNION { [1..k -> 1..MaxWidth] : k \in 0..MaxSignals } }
\* A module instantiating itself: the target's ports are the module's own
ConnFamily ==
    { Module("amp", <<>>, InputPorts(k), <<>>, <<Instance("i1", "amp", <<>>, c)>>) :
        k \in 0..MaxPorts, c \in ConnOrders }
OverrideFamily ==
    { Module("amp", <<>>, <<>>, <<>>, <<Instance("i1", "ext", o, AllConns)>>) :
        o \in Overrides }
InstFamily ==
    { Module("amp", <<>>, <<>>, <<>>, [i \in 1..Len(r) |-> Instance(InstNm(i), r[i], <<>>, AllConns)]) :
        r \in UNION { [1..k -> Refs] : k \in 0..MaxInsts } }
NameFamily ==
    { Module(n, <<[name |-> "k1", param |-> Parameter("double", <<"1.5">>)],
                  [name |-> "k2", param |-> Parameter("integer", None)]>>, InputPorts(2),
             <<Signal("s1", 1)>>,
             <<Instance("i1", "ext", <<[name |-> "w", value |-> Parameter("integer", <<"1">>)]>>, AllConns),
               Instance("i2", n, <<>>, <<[key |-> "p2", conn |-> ConnSig("a")],
                                         [key |-> "p1", conn |-> ConnSig("b")]>>)>>) :
        n \in {"amp", "lib.top", "top"} }

Library ==
    PortFamily \cup ParamFamily \cup SignalFamily \cup ConnFamily \cup OverrideFamily
    \cup InstFamily \cup NameFamily

\* ------------------------------------------------ collaborators (base class)
\* Netlister.get_module_name: the format-legal canonical name of a module
get_module_name(module) ==
    IF module.name = "lib.top" THEN "top" ELSE module.name

\* Netlister.writeln: one line at the current indent
writeln(out, level, text) == Append(out, [indent |-> level, text |-> text])

\* Netlister.resolve_reference: the target definition and its canonical name
resolve_reference(ref) ==
    IF ref \in DOMAIN pmodules
    THEN [ok |-> TRUE, module |-> pmodules[ref], module_name |-> get_module_name(pmodules[ref]),
          err |-> NoErr]
    ELSE IF \E e \in ExternalModules : e.name = ref
    THEN LET e == CHOOSE e \in ExternalModules : e.name = ref
         IN  [ok |-> TRUE, module |-> e, module_name |-> e.name, err |-> NoErr]
    ELSE [ok |-> FALSE, module |-> Ext, module_name |-> "",
          err |-> RuntimeError(<<"Invalid undefined Module ", ref>>)]

\* dict.get on the connection mapping, None when the key is absent
connections_get(conns, pname) ==
    IF \E i \in 1..Len(conns) : conns[i].key = pname
    THEN <<conns[CHOOSE i \in 1..Len(conns) : conns[i].key = pname].conn>>
    ELSE None

\* ------------------------------------------------------------------- Init
Init ==
    /\ mut \in Library
    /\ module_names = {}
    /\ pmodules = <<>>
    /\ lines = <<>>
    /\ indent = 0
    /\ pc = "idle"
    /\ cur = Aux
    /\ num = 0
    /\ inum = 0
    /\ err = NoErr
    /\ defs = 0
    /\ fconn = ConnSig("a")
    /\ fout = None

Fixed == UNCHANGED <<mut, fconn, fout>>

\* The caller hands one Module of the circuit to write_module_definition
Call ==
    /\ pc = "idle"
    /\ defs < MaxDefs
    /\ \E m \in {mut, Aux} : cur' = m
    /\ defs' = defs + 1
    /\ pc' = "wmd_check"
    /\ UNCHANGED <<module_names, pmodules, lines, indent, num, inum, err>>
    /\ Fixed

\* Variant: a comma after every entry
trailing_comma_always(n, len) == <<",">>

\* comma = "" if num == len(...) - 1 else ","   (num is 1-based here)
trailing_comma(n, len) == IF n = len THEN <<>> ELSE <<",">>

\* ------------------------------------------------- write_module_definition
module_name == get_module_name(cur)

\* Variant: the header written before the double-definition check raises
WmdDuplicate_header_first ==
    /\ pc = "wmd_check"
    /\ module_name \in module_names
    /\ lines' = writeln(lines, indent, <<"module ", module_name>>)
    /\ err' = RuntimeError(<<"Module ", module_name, " doubly defined">>)
    /\ pc' = "raised"
    /\ UNCHANGED <<module_names, pmodules, indent, cur, num, inum, defs>>
    /\ Fixed

WmdDuplicate ==
    /\ pc = "wmd_check"
    /\ module_name \in module_names
    /\ err' = RuntimeError(<<"Module ", module_name, " doubly defined">>)
    /\ pc' = "raised"
    /\ UNCHANGED <<module_names, pmodules, lines, indent, cur, num, inum, defs>>
    /\ Fixed

\* Variant: the name registered, the identity map left alone
WmdBegin_no_identity ==
    /\ pc = "wmd_check"
    /\ module_name \notin module_names
    /\ module_names' = module_names \cup {module_name}
    /\ lines' = writeln(lines, indent, <<"module ", module_name>>)
    /\ pc' = "wmd_params"
    /\ UNCHANGED <<pmodules, indent, cur, num, inum, err, defs>>
    /\ Fixed

WmdBegin ==
    /\ pc = "wmd_check"
    /\ module_name \notin module_names
    /\ module_names' = module_names \cup {module_name}
    /\ pmodules' = [n \in DOMAIN pmodules \cup {cur.name} |->
                        IF n = cur.name THEN cur ELSE pmodules[n]]
    /\ lines' = writeln(lines, indent, <<"module ", module_name>>)
    /\ pc' = "wmd_params"
    /\ UNCHANGED <<indent, cur, num, inum, err, defs>>
    /\ Fixed

WmdParamsOpen ==
    /\ pc = "wmd_params"
    /\ Len(cur.default_parameters) > 0
    /\ lines' = writeln(lines, indent, <<"#( ">>)
    /\ indent' = indent + 1
    /\ num' = 1
    /\ pc' = "wmd_param"
    /\ UNCHANGED <<module_names, pmodules, cur, inum, err, defs>>
    /\ Fixed

WmdNoParams ==
    /\ pc = "wmd_params"
    /\ Len(cur.default_parameters) = 0
    /\ lines' = writeln(lines, indent, <<"// No parameters ">>)
    /\ pc' = "wmd_ports"
    /\ UNCHANGED <<module_names, pmodules, indent, cur, num, inum, err, defs>>
    /\ Fixed

WmdParam ==
    /\ pc = "wmd_param"
    /\ num <= Len(cur.default_parameters)
    /\ LET name == cur.default_parameters[num].name
           pparam == cur.default_parameters[num].param
           comma == trailing_comma(num, Len(cur.default_parameters))
           decl == format_param_decl(name, pparam)
       IN  IF decl.ok
           THEN /\ lines' = writeln(lines, indent, decl.val \o comma)
                /\ num' = num + 1
                /\ UNCHANGED <<pc, err>>
           ELSE /\ err' = decl.err
                /\ pc' = "raised"
                /\ UNCHANGED <<lines, num>>
    /\ UNCHANGED <<module_names, pmodules, indent, cur, inum, defs>>
    /\ Fixed

WmdParamsClose ==
    /\ pc = "wmd_param"
    /\ num > Len(cur.default_parameters)
    /\ indent' = indent - 1
    /\ lines' = writeln(lines, indent', <<") ">>)
    /\ pc' = "wmd_ports"
    /\ UNCHANGED <<module_names, pmodules, cur, num, inum, err, defs>>
    /\ Fixed

WmdPortsOpen ==
    /\ pc = "wmd_ports"
    /\ Len(cur.ports) > 0
    /\ lines' = writeln(lines, indent, <<"( ">>)
    /\ indent' = indent + 1
    /\ num' = 1
    /\ pc' = "wmd_port"
    /\ UNCHANGED <<module_names, pmodules, cur, inum, err, defs>>
    /\ Fixed

WmdNoPorts ==
    /\ pc = "wmd_ports"
    /\ Len(cur.ports) = 0
    /\ lines' = writeln(lines, indent, <<"// No ports ">>)
    /\ pc' = "wmd_blank"
    /\ UNCHANGED <<module_names, pmodules, indent, cur, num, inum, err, defs>>
    /\ Fixed

WmdPort ==
    /\ pc = "wmd_port"
    /\ num <= Len(cur.ports)
    /\ LET comma == trailing_comma(num, Len(cur.ports))
           decl == format_port_decl(cur.ports[num])
       IN  IF decl.ok
           THEN /\ lines' = writeln(lines, indent, decl.val \o comma)
                /\ num' = num + 1
                /\ UNCHANGED <<pc, err>>
           ELSE /\ err' = decl.err
                /\ pc' = "raised"
                /\ UNCHANGED <<lines, num>>
    /\ UNCHANGED <<module_names, pmodules, indent, cur, inum, defs>>
    /\ Fixed

WmdPortsClose ==
    /\ pc = "wmd_port"
    /\ num > Len(cur.ports)
    /\ indent' = indent - 1
    /\ lines' = writeln(lines, indent', <<"); ">>)
    /\ pc' = "wmd_blank"
    /\ UNCHANGED <<module_names, pmodules, cur, num, inum, err, defs>>
    /\ Fixed

\* Variant: the body not indented
WmdHeaderEnd_no_indent ==
    /\ pc = "wmd_blank"
    /\ lines' = writeln(lines, indent, <<"">>)
    /\ pc' = "wmd_signals"
    /\ UNCHANGED <<module_names, pmodules, indent, cur, num, inum, err, defs>>
    /\ Fixed

WmdHeaderEnd ==
    /\ pc = "wmd_blank"
    /\ lines' = writeln(lines, indent, <<"">>)
    /\ indent' = indent + 1
    /\ pc' = "wmd_signals"
    /\ UNCHANGED <<module_names, pmodules, cur, num, inum, err, defs>>
    /\ Fixed

WmdSignalsOpen ==
    /\ pc = "wmd_signals"
    /\ Len(cur.signals) > 0
    /\ lines' = writeln(lines, indent, <<"// Signal Declarations">>)
    /\ num' = 1
    /\ pc' = "wmd_signal"
    /\ UNCHANGED <<module_names, pmodules, indent, cur, inum, err, defs>>
    /\ Fixed

WmdNoSignals ==
    /\ pc = "wmd_signals"
    /\ Len(cur.signals) = 0
    /\ lines' = writeln(lines, indent, <<"// No Signal Declarations">>)
    /\ pc' = "wmd_instances"
    /\ UNCHANGED <<module_names, pmodules, indent, cur, num, inum, err, defs>>
    /\ Fixed

WmdSignal ==
    /\ pc = "wmd_signal"
    /\ num <= Len(cur.signals)
    /\ lines' = writeln(lines, indent, format_signal_decl(cur.signals[num]) \o <<"; ">>)
    /\ num' = num + 1
    /\ pc' = IF num = Len(cur.signals) THEN "wmd_instances" ELSE "wmd_signal"
    /\ UNCHANGED <<module_names, pmodules, indent, cur, inum, err, defs>>
    /\ Fixed

WmdInstancesOpen ==
    /\ pc = "wmd_instances"
    /\ Len(cur.instances) > 0
    /\ lines' = writeln(writeln(lines, indent, <<"">>), indent, <<"// Instance Declarations">>)
    /\ inum' = 1
    /\ pc' = "wi_begin"
    /\ UNCHANGED <<module_names, pmodules, indent, cur, num, err, defs>>
    /\ Fixed

WmdNoInstances ==
    /\ pc = "wmd_instances"
    /\ Len(cur.instances) = 0
    /\ lines' = writeln(lines, indent, <<"// No Instances">>)
    /\ pc' = "wmd_close"
    /\ UNCHANGED <<module_names, pmodules, indent, cur, num, inum, err, defs>>
    /\ Fixed

WmdClose ==
    /\ pc = "wmd_close"
    /\ indent' = indent - 1
    /\ lines' = writeln(writeln(lines, indent', <<"">>), indent',
                        <<"endmodule // ", module_name, " \n\n">>)
    /\ pc' = "idle"
    /\ UNCHANGED <<module_names, pmodules, cur, num, inum, err, defs>>
    /\ Fixed

\* ---------------------------------------------------------- write_instance
pinst == cur.instances[inum]
target == resolve_reference(pinst.module)

\* Variant: the ports taken last to first
port_order_reversed(module) ==
    [i \in 1..Len(module.ports) |-> module.ports[Len(module.ports) + 1 - i].signal.name]

port_order(module) == [i \in 1..Len(module.ports) |-> module.ports[i].signal.name]

WiUnresolved ==
    /\ pc = "wi_begin"
    /\ ~target.ok
    /\ err' = target.err
    /\ pc' = "raised"
    /\ UNCHANGED <<module_names, pmodules, lines, indent, cur, num, inum, defs>>
    /\ Fixed

WiBegin ==
    /\ pc = "wi_begin"
    /\ target.ok
    /\ lines' = writeln(lines, indent, <<target.module_name>>)
    /\ pc' = "wi_params"
    /\ UNCHANGED <<module_names, pmodules, indent, cur, num, inum, err, defs>>
    /\ Fixed

WiParamsOpen ==
    /\ pc = "wi_params"
    /\ Len(pinst.parameters) > 0
    /\ lines' = writeln(lines, indent, <<"#( ">>)
    /\ indent' = indent + 1
    /\ num' = 1
    /\ pc' = "wi_param"
    /\ UNCHANGED <<module_names, pmodules, cur, inum, err, defs>>
    /\ Fixed

WiNoParams ==
    /\ pc = "wi_params"
    /\ Len(pinst.parameters) = 0
    /\ lines' = writeln(lines, indent, <<"// No parameters ">>)
    /\ pc' = "wi_name"
    /\ UNCHANGED <<module_names, pmodules, indent, cur, num, inum, err, defs>>
    /\ Fixed

\* Variant: the override line with a separator
override_line_with_comma(pname, pval) == <<pname, "=">> \o pval \o <<",", " ">>

\* f"{pname}={pval} "
override_line(pname, pval) == <<pname, "=">> \o pval \o <<" ">>

WiParam ==
    /\ pc = "wi_param"
    /\ num <= Len(pinst.parameters)
    /\ LET pname == pinst.parameters[num].name
           pval == get_param_value(pinst.parameters[num].value)
       IN  lines' = writeln(lines, indent, override_line(pname, pval))
    /\ num' = num + 1
    /\ UNCHANGED <<module_names, pmodules, indent, pc, cur, inum, err, defs>>
    /\ Fixed

WiParamsClose ==
    /\ pc = "wi_param"
    /\ num > Len(pinst.parameters)
    /\ indent' = indent - 1
    /\ lines' = writeln(lines, indent', <<") ">>)
    /\ pc' = "wi_name"
    /\ UNCHANGED <<module_names, pmodules, cur, num, inum, err, defs>>
    /\ Fixed

WiName ==
    /\ pc = "wi_name"
    /\ lines' = writeln(lines, indent, <<pinst.name>>)
    /\ pc' = "wi_conns"
    /\ UNCHANGED <<module_names, pmodules, indent, cur, num, inum, err, defs>>
    /\ Fixed

WiConnsOpen ==
    /\ pc = "wi_conns"
    /\ Len(target.module.ports) > 0
    /\ lines' = writeln(lines, indent, <<"( ">>)
    /\ indent' = indent + 1
    /\ num' = 1
    /\ pc' = "wi_conn"
    /\ UNCHANGED <<module_names, pmodules, cur, inum, err, defs>>
    /\ Fixed

WiNoPorts ==
    /\ pc = "wi_conns"
    /\ Len(target.module.ports) = 0
    /\ lines' = writeln(lines, indent, <<"// No ports ">>)
    /\ pc' = "wi_end"
    /\ UNCHANGED <<module_names, pmodules, indent, cur, num, inum, err, defs>>
    /\ Fixed

\* Variant: an unconnected port passed over
WiUnconnected_skip ==
    /\ pc = "wi_conn"
    /\ num <= Len(port_order(target.module))
    /\ connections_get(pinst.connections, port_order(target.module)[num]) = None
    /\ num' = num + 1
    /\ UNCHANGED <<module_names, pmodules, lines, indent, pc, cur, inum, err, defs>>
    /\ Fixed

WiUnconnected ==
    /\ pc = "wi_conn"
    /\ num <= Len(port_order(target.module))
    /\ LET pname == port_order(target.module)[num]
       IN  /\ connections_get(pinst.connections, pname) = None
           /\ err' = RuntimeError(<<"Unconnected Port ", pname, " on ", pinst.name>>)
    /\ pc' = "raised"
    /\ UNCHANGED <<module_names, pmodules, lines, indent, cur, num, inum, defs>>
    /\ Fixed

WiConn ==
    /\ pc = "wi_conn"
    /\ num <= Len(port_order(target.module))
    /\ LET pname == port_order(target.module)[num]
           pconn == connections_get(pinst.connections, pname)
           comma == trailing_comma(num, Len(port_order(target.module)))
       IN  /\ pconn # None
           /\ lines' = writeln(lines, indent,
                               <<".", pname, "(">> \o format_connection(pconn[1])
                               \o <<")">> \o comma \o <<" ">>)
    /\ num' = num + 1
    /\ UNCHANGED <<module_names, pmodules, indent, pc, cur, inum, err, defs>>
    /\ Fixed

WiConnsClose ==
    /\ pc = "wi_conn"
    /\ num > Len(port_order(target.module))
    /\ indent' = indent - 1
    /\ lines' = writeln(lines, indent', <<"); ">>)
    /\ pc' = "wi_end"
    /\ UNCHANGED <<module_names, pmodules, cur, num, inum, err, defs>>
    /\ Fixed

\* The post-instance blank line, and the step of `for pinst in module.instances`
WiEnd ==
    /\ pc = "wi_end"
    /\ lines' = writeln(lines, indent, <<"">>)
    /\ IF inum < Len(cur.instances)
       THEN inum' = inum + 1 /\ pc' = "wi_begin"
       ELSE inum' = inum /\ pc' = "wmd_close"
    /\ UNCHANGED <<module_names, pmodules, indent, cur, num, err, defs>>
    /\ Fixed

Next ==
    \/ Call
    \/ WmdDuplicate \/ WmdBegin
    \/ WmdParamsOpen \/ WmdNoParams \/ WmdParam \/ WmdParamsClose
    \/ WmdPortsOpen \/ WmdNoPorts \/ WmdPort \/ WmdPortsClose
    \/ WmdHeaderEnd
    \/ WmdSignalsOpen \/ WmdNoSignals \/ WmdSignal
    \/ WmdInstancesOpen \/ WmdNoInstances
    \/ WiUnresolved \/ WiBegin
    \/ WiParamsOpen \/ WiNoParams \/ WiParam \/ WiParamsClose
    \/ WiName
    \/ WiConnsOpen \/ WiNoPorts \/ WiUnconnected \/ WiConn \/ WiConnsClose
    \/ WiEnd
    \/ WmdClose

Spec == Init /\ [][Next]_vars

\* --------------------------------------- the connection formatter, alone
FmtSignals == {"a", "b", "c"}
FmtLeaves ==
    { ConnSig(n) : n \in FmtSignals }
    \cup { ConnSlice("a", t, b) : t \in 0..MaxBit, b \in 0..MaxBit }
    \cup { ConnConcat(<<>>) }
AppendLeaves == { ConnSig("b"), ConnSlice("c", 0, 0) }

RECURSIVE Depth(_)
Depth(c) ==
    IF c.stype # "concat" \/ Len(c.parts) = 0 THEN 0
    ELSE 1 + Depth(c.parts[1])

InitFmt ==
    /\ mut = Aux
    /\ module_names = {}
    /\ pmodules = <<>>
    /\ lines = <<>>
    /\ indent = 0
    /\ pc = "fmt"
    /\ cur = Aux
    /\ num = 0
    /\ inum = 0
    /\ err = NoErr
    /\ defs = 0
    /\ fconn \in FmtLeaves
    /\ fout = None

Writer == <<mut, module_names, pmodules, lines, indent, pc, cur, num, inum, err, defs>>

\* The caller builds a Concat around the connection it holds
FmtWrap ==
    /\ fout = None
    /\ Depth(fconn) < MaxDepth
    /\ fconn' = ConnConcat(<<fconn>>)
    /\ UNCHANGED <<fout, Writer>>

FmtAppend ==
    /\ fout = None
    /\ fconn.stype = "concat"
    /\ Len(fconn.parts) \in 1..(MaxParts - 1)
    /\ \E leaf \in AppendLeaves : fconn' = ConnConcat(Append(fconn.parts, leaf))
    /\ UNCHANGED <<fout, Writer>>

\* format_connection(pconn): returns the text, writes nothing
FmtFormat ==
    /\ fout = None
    /\ fout' = format_connection(fconn)
    /\ UNCHANGED <<fconn, Writer>>

NextFmt == FmtWrap \/ FmtAppend \/ FmtFormat

SpecFmt == InitFmt /\ [][NextFmt]_vars

\* ------------------------------------------------------------- C9
\* The top-level pieces of a token sequence, split at the ", " tokens that are
\* not inside braces.
RECURSIVE SplitTop(_, _, _, _)
SplitTop(toks, i, depth, acc) ==
    IF i > Len(toks) THEN acc
    ELSE LET t == toks[i]
             d == IF t = "{" THEN depth + 1 ELSE IF t = "}" THEN depth - 1 ELSE depth
         IN  IF t = ", " /\ depth = 0
             THEN SplitTop(toks, i + 1, d, Append(acc, <<>>))
             ELSE SplitTop(toks, i + 1, d,
                           [acc EXCEPT ![Len(acc)] = Append(acc[Len(acc)], t)])

Pieces(toks) == IF Len(toks) = 0 THEN <<>> ELSE SplitTop(toks, 1, 0, <<<<>>>>)

SliceRendered(c, t) ==
    IF c.top = c.bot
    THEN t = <<c.sig, "[", ToString(c.top), "]">>
    ELSE t = <<c.sig, "[", ToString(c.top), ":", ToString(c.bot), "]">>

RECURSIVE Rendered(_, _)
Rendered(c, t) ==
    CASE c.stype = "sig" -> t = <<c.sig>>
      [] c.stype = "slice" -> SliceRendered(c, t)
      [] OTHER ->
            /\ Len(t) >= 2
            /\ t[1] = "{"
            /\ t[Len(t)] = "}"
            /\ LET inner == Pieces(SubSeq(t, 2, Len(t) - 1))
               IN  /\ Len(inner) = Len(c.parts)
                   /\ \A i \in 1..Len(c.parts) : Rendered(c.parts[i], inner[i])

SpecExample == ConnConcat(<<ConnSlice("a", 3, 2), ConnSig("b"), ConnSlice("c", 0, 0)>>)
SpecExampleText ==
    <<"{", "a", "[", "3", ":", "2", "]", ", ", "b", ", ", "c", "[", "0", "]", "}">>

\* C9: a Slice with top = bot is rendered 'sig[top]', any other (inverted ones
\* included) 'sig[top:bot]'; a Concat is rendered as '{' parts joined by ', ' '}'
\* with the parts in the given order, recursively; the spec's example gives
\* '{a[3:2], b, c[0]}'; and formatting leaves the writer as it was.
C9_FormatConnection ==
    /\ fout # None =>
        /\ Rendered(fconn, fout)
        /\ fconn = SpecExample => fout = SpecExampleText
    /\ lines = <<>> /\ indent = 0 /\ module_names = {} /\ pmodules = <<>>

C9_Witness ==
    /\ fout # None
    /\ fconn.stype = "concat"
    /\ Len(fconn.parts) = 3
    /\ fconn.parts[1].stype = "concat"
    /\ Len(fconn.parts[1].parts) = 3
    /\ fconn.parts[1].parts[1].stype = "slice"
    /\ fconn.parts[1].parts[1].top < fconn.parts[1].parts[1].bot

\* ------------------------------------------------- reading the output back
Max(S) == CHOOSE x \in S : \A y \in S : y <= x
Min(S) == CHOOSE x \in S : \A y \in S : x <= y

\* The last line holding exactly `text`, 0 when there is none
LastIdx(text) ==
    LET S == { i \in 1..Len(lines) : lines[i].text = text }
    IN  IF S = {} THEN 0 ELSE Max(S)

\* The header line of the definition written last
HeaderIdx ==
    LET S == { i \in 1..Len(lines) : lines[i].text[1] = "module " }
    IN  IF S = {} THEN 0 ELSE Max(S)

\* The text without one trailing blank
Stripped(text) ==
    IF Len(text) > 0 /\ Last(text) = " " THEN SubSeq(text, 1, Len(text) - 1) ELSE text

EndsWithComma(text) == Len(Stripped(text)) > 0 /\ Last(Stripped(text)) = ","

\* n entries strictly between lines `open` and `close`, all but the last with a comma
BlockLaw(open, close, n) ==
    /\ close - open - 1 = n
    /\ \A k \in (open + 1)..(close - 1) : EndsWithComma(lines[k].text) <=> k < close - 1

\* ------------------------------------------------------------- C1
\* C1: a closed declaration or connection block of N >= 1 entries holds exactly N
\* lines between its opening and its closing line, the first N-1 ending with a
\* comma (in a connection block followed by one blank) and the last without:
\* the module's parameter block ('#( ' .. ') '), its port block ('( ' .. '); ')
\* and the connection block of an instance ('( ' .. '); ').
C1_SeparatorLaw ==
    /\ (pc = "wmd_ports" /\ Len(cur.default_parameters) >= 1) =>
          /\ lines[Len(lines)].text = <<") ">>
          /\ LastIdx(<<"#( ">>) > HeaderIdx
          /\ BlockLaw(LastIdx(<<"#( ">>), Len(lines), Len(cur.default_parameters))
    /\ (pc = "wmd_blank" /\ Len(cur.ports) >= 1) =>
          /\ lines[Len(lines)].text = <<"); ">>
          /\ LastIdx(<<"( ">>) > HeaderIdx
          /\ BlockLaw(LastIdx(<<"( ">>), Len(lines), Len(cur.ports))
    /\ (pc = "wi_end" /\ Len(target.module.ports) >= 1) =>
          /\ lines[Len(lines)].text = <<"); ">>
          /\ LastIdx(<<"( ">>) > LastIdx(<<pinst.name>>)
          /\ BlockLaw(LastIdx(<<"( ">>), Len(lines), Len(target.module.ports))

C1_Witness ==
    /\ pc = "wi_end"
    /\ Len(target.module.ports) >= 2
    /\ Len(cur.ports) >= 2
    /\ Len(cur.default_parameters) >= 2
    /\ \E i \in 1..Len(lines) : lines[i].text[1] = "parameter " /\ EndsWithComma(lines[i].text)

\* ------------------------------------------------------------- C2
PortNames(module) == { module.ports[k].signal.name : k \in 1..Len(module.ports) }
ConnKeysOf(inst) == { inst.connections[k].key : k \in 1..Len(inst.connections) }
ConnFor(inst, pname) ==
    (CHOOSE c \in { inst.connections[k] : k \in 1..Len(inst.connections) } : c.key = pname).conn

\* Line i is the named binding of port pname to the expression of connection conn
IsBinding(i, pname, conn) ==
    LET t == lines[i].text
        e == format_connection(conn)
    IN  /\ Len(t) >= Len(e) + 4
        /\ t[1] = "." /\ t[2] = pname /\ t[3] = "("
        /\ SubSeq(t, 4, 3 + Len(e)) = e
        /\ t[4 + Len(e)] = ")"

\* C2: when the instance connects every port of its target, the closed connection
\* block holds one binding per target port, in the target's declared order, each
\* with the expression of the connection keyed by that port; no line of the block
\* names a connection key that is not a port of the target.
C2_TargetPortOrder ==
    (/\ pc = "wi_end"
     /\ Len(target.module.ports) >= 1
     /\ PortNames(target.module) \subseteq ConnKeysOf(pinst)) =>
        LET n == Len(target.module.ports)
            open == Len(lines) - n - 1
        IN  /\ open >= 1
            /\ lines[open].text = <<"( ">>
            /\ lines[Len(lines)].text = <<"); ">>
            /\ \A k \in 1..n :
                 IsBinding(open + k, target.module.ports[k].signal.name,
                           ConnFor(pinst, target.module.ports[k].signal.name))
            /\ \A key \in ConnKeysOf(pinst) \ PortNames(target.module) :
                 \A k \in 1..n : lines[open + k].text[2] # key

C2_Witness ==
    /\ pc = "wi_end"
    /\ Len(target.module.ports) >= 2
    /\ PortNames(target.module) \subseteq ConnKeysOf(pinst)
    /\ ConnKeysOf(pinst) \ PortNames(target.module) # {}
    /\ pinst.connections[1].key \notin PortNames(target.module)
    /\ \E i, j \in 1..Len(pinst.connections) :
          /\ i < j
          /\ pinst.connections[i].key = target.module.ports[2].signal.name
          /\ pinst.connections[j].key = target.module.ports[1].signal.name

\* ------------------------------------------------------------- C3
\* The first port of the target, in declared order, that the instance leaves
\* unconnected; 0 when there is none
FirstMissing(inst, module) ==
    LET S == { k \in 1..Len(module.ports) : module.ports[k].signal.name \notin ConnKeysOf(inst) }
    IN  IF S = {} THEN 0 ELSE Min(S)

UnconnectedRaised == pc = "raised" /\ Len(err.msg) > 0 /\ err.msg[1] = "Unconnected Port "

\* C3: an instance that leaves a target port unconnected fails at the first such
\* port with an error naming that port and the instance; the bindings of the
\* ports before it are the last lines written, the block is never closed and the
\* loop never passes that port.
C3_UnconnectedPort ==
    /\ (pc = "wi_conn" /\ FirstMissing(pinst, target.module) > 0) =>
          num <= FirstMissing(pinst, target.module)
    /\ pc = "wi_end" => FirstMissing(pinst, target.module) = 0
    /\ UnconnectedRaised =>
          LET f == FirstMissing(pinst, target.module)
              open == Len(lines) - (f - 1)
          IN  /\ f > 0
              /\ err.type = "RuntimeError"
              /\ err.msg = <<"Unconnected Port ", target.module.ports[f].signal.name,
                             " on ", pinst.name>>
              /\ open >= 1
              /\ lines[open].text = <<"( ">>
              /\ \A k \in 1..(f - 1) :
                    IsBinding(open + k, target.module.ports[k].signal.name,
                              ConnFor(pinst, target.module.ports[k].signal.name))
    /\ (\E e \in {"wi_conn", "wi_end"} : pc = e) \/ UnconnectedRaised =>
          \E i \in 1..Len(lines) : lines[i].text = <<pinst.name>>

C3_Witness ==
    /\ UnconnectedRaised
    /\ FirstMissing(pinst, target.module) >= 2
    /\ lines[Len(lines)].text[1] = "."

\* ------------------------------------------------------------- C4
\* The canonical names of the definitions written to their closing line
Emitted == { lines[i].text[2] : i \in { j \in 1..Len(lines) : lines[j].text[1] = "endmodule // " } }

DuplicateRaised == pc = "raised" /\ Len(err.msg) > 0 /\ err.msg[1] = "Module "

\* C4: write_module_definition on a module whose canonical name is registered
\* fails with an error naming that name, and the failing step leaves the lines
\* written, the name registry, the identity map and the indent level as they
\* were; whenever the pass is between definitions, the registry holds exactly the
\* canonical names of the modules emitted so far.
C4_DuplicateDefinition ==
    /\ [][(pc = "wmd_check" /\ get_module_name(cur) \in module_names) =>
            /\ pc' = "raised"
            /\ err'.type = "RuntimeError"
            /\ err'.msg = <<"Module ", get_module_name(cur), " doubly defined">>
            /\ lines' = lines
            /\ module_names' = module_names
            /\ pmodules' = pmodules
            /\ indent' = indent]_vars
    /\ [](pc = "idle" => module_names = Emitted)
    /\ [](DuplicateRaised => err.msg[2] \in Emitted)

C4_Witness ==
    /\ DuplicateRaised
    /\ cur.name \notin DOMAIN pmodules
    /\ get_module_name(cur) \in module_names
    /\ lines[Len(lines)].text[1] = "endmodule // "

\* ------------------------------------------------------------- C5
DirKeywords == {"input", "output", "inout"}

\* The name a declaration line declares: its last token, a trailing comma aside
DeclName(text) == IF Last(text) = "," THEN text[Len(text) - 1] ELSE Last(text)

\* The line opening the instance part of the definition written last
BodyIdx ==
    Min({ i \in HeaderIdx..Len(lines) :
            lines[i].text \in {<<"// Instance Declarations">>, <<"// No Instances">>} })

\* What part of a definition line i is, <<>> for the lines that only delimit
Mark(i) ==
    LET t == lines[i].text
    IN  IF t[1] = "endmodule // " THEN <<<<"end", t[2]>>>>
        ELSE IF i >= BodyIdx
        THEN IF Len(t) = 1 /\ t[1] # "" /\ lines[i - 1].text \in {<<") ">>, <<"// No parameters ">>}
             THEN <<<<"instance", t[1]>>>> ELSE <<>>
        ELSE IF t[1] = "module " THEN <<<<"header", t[2]>>>>
        ELSE IF t[1] = "parameter " THEN <<<<"parameter", t[2]>>>>
        ELSE IF t = <<"// No parameters ">> THEN <<<<"no parameters", "">>>>
        ELSE IF t[1] \in DirKeywords THEN <<<<"port", DeclName(t)>>>>
        ELSE IF t = <<"// No ports ">> THEN <<<<"no ports", "">>>>
        ELSE IF t[1] = "wire" THEN <<<<"signal", t[Len(t) - 1]>>>>
        ELSE <<>>

RECURSIVE Marks(_, _)
Marks(i, j) == IF i > j THEN <<>> ELSE Mark(i) \o Marks(i + 1, j)

ExpectedMarks(m) ==
    <<<<"header", get_module_name(m)>>>>
    \o (IF Len(m.default_parameters) = 0 THEN <<<<"no parameters", "">>>>
        ELSE [k \in 1..Len(m.default_parameters) |-> <<"parameter", m.default_parameters[k].name>>])
    \o (IF Len(m.ports) = 0 THEN <<<<"no ports", "">>>>
        ELSE [k \in 1..Len(m.ports) |-> <<"port", m.ports[k].signal.name>>])
    \o [k \in 1..Len(m.signals) |-> <<"signal", m.signals[k].name>>]
    \o [k \in 1..Len(m.instances) |-> <<"instance", m.instances[k].name>>]
    \o <<<<"end", get_module_name(m)>>>>

InInstance == pc \in {"wi_begin", "wi_params", "wi_param", "wi_name", "wi_conns", "wi_conn", "wi_end"}

\* C5: a finished definition consists, in this order, of the header with the
\* canonical name, the parameter declarations in declared order (or the marker),
\* the port declarations in declared order (or the marker), the signal
\* declarations in declared order, the instance blocks in declared order and the
\* closing line with the header's name; and while an instance block is written
\* the module's name and its identity-to-definition entry are registered.
C5_EmissionOrder ==
    /\ (pc = "idle" /\ defs > 0) =>
          /\ lines[Len(lines)].text = <<"endmodule // ", lines[HeaderIdx].text[2], " \n\n">>
          /\ Marks(HeaderIdx, Len(lines)) = ExpectedMarks(cur)
    /\ InInstance =>
          /\ get_module_name(cur) \in module_names
          /\ cur.name \in DOMAIN pmodules
          /\ pmodules[cur.name] = cur

C5_Witness ==
    /\ pc = "idle"
    /\ defs > 0
    /\ Len(cur.default_parameters) >= 2
    /\ Len(cur.ports) >= 2
    /\ Len(cur.signals) >= 1
    /\ Len(cur.instances) >= 2
    /\ cur.instances[2].module = cur.name
    /\ cur.name # get_module_name(cur)

\* ------------------------------------------------------------- C6
\* An entry of the module's parameter- or port-declaration list
IsDeclEntry(i) == lines[i].text[1] = "parameter " \/ lines[i].text[1] \in DirKeywords

\* An entry of an instance's parameter-override or connection list
IsInstanceEntry(i) ==
    \/ lines[i].text[1] = "."
    \/ Len(lines[i].text) >= 2 /\ lines[i].text[2] = "="

\* The blank line ending the header part of the definition written last
HeaderEndIdx == Min({ i \in HeaderIdx..Len(lines) : lines[i].text = <<"">> })

Finished == pc = "idle" /\ defs > 0

\* C6 as stated: every line between the header and the closing line is one level
\* deeper than the header (at least), the entries of the parameter and port
\* declaration lists two levels deeper, and the closing line at the header's level.
C6_AsStated ==
    Finished =>
        LET base == lines[HeaderIdx].indent
        IN  /\ \A i \in (HeaderIdx + 1)..(Len(lines) - 1) :
                 IF IsDeclEntry(i) THEN lines[i].indent = base + 2
                 ELSE lines[i].indent >= base + 1
            /\ lines[Len(lines)].indent = base

\* C6, amended: up to and including the blank line that ends the header part, the
\* delimiters and markers are at the header's level and the entries of the
\* parameter and port declaration lists one level deeper; from there to the
\* blank line before the closing line every line is one level deeper than the
\* header, the entries of an instance's override and connection lists two; the
\* blank line before the closing line and the closing line are at the header's
\* level.
C6_Indentation ==
    Finished =>
        LET base == lines[HeaderIdx].indent
            last == Len(lines)
        IN  /\ \A i \in (HeaderIdx + 1)..HeaderEndIdx :
                 lines[i].indent = IF IsDeclEntry(i) THEN base + 1 ELSE base
            /\ \A i \in (HeaderEndIdx + 1)..(last - 2) :
                 lines[i].indent = IF IsInstanceEntry(i) THEN base + 2 ELSE base + 1
            /\ lines[last - 1].text = <<"">>
            /\ lines[last - 1].indent = base
            /\ lines[last].indent = base
            /\ indent = base

C6_Witness ==
    /\ Finished
    /\ Len(cur.default_parameters) >= 1
    /\ Len(cur.ports) >= 1
    /\ Len(cur.signals) >= 1
    /\ Len(cur.instances) >= 1
    /\ Len(cur.instances[1].parameters) >= 1
    /\ \E i \in HeaderIdx..Len(lines) : lines[i].text[1] = "."

\* ------------------------------------------------------------- C7
Directed == {"INPUT", "OUTPUT", "INOUT"}
Keyword(d) == CASE d = "INPUT" -> "input" [] d = "OUTPUT" -> "output" [] d = "INOUT" -> "inout"

PortRaised ==
    /\ pc = "raised"
    /\ Len(err.msg) > 0
    /\ err.msg[1] \in {"Invalid Verilog netlisting for unknown Port direction ",
                       "Invalid Verilog netlisting for undirected Port "}

\* C7: format_port_decl gives 'input'/'output'/'inout' and the signal declaration
\* for the three directions and fails for NONE and for any other value; the port
\* loop of write_module_definition never passes such a port: it fails at the
\* first one, after the lines of the ports before it and with no line for it.
C7_UndirectedPort ==
    /\ (pc = "wmd_port" /\ num <= Len(cur.ports)) =>
          LET r == format_port_decl(cur.ports[num])
          IN  IF cur.ports[num].direction \in Directed
              THEN /\ r.ok
                   /\ r.val = <<Keyword(cur.ports[num].direction), " ">>
                              \o format_signal_decl(cur.ports[num].signal)
              ELSE /\ ~r.ok
                   /\ r.err.type = "RuntimeError"
    /\ pc = "wmd_port" => \A k \in 1..(num - 1) : cur.ports[k].direction \in Directed
    /\ pc \in {"wmd_blank", "wmd_signals", "wmd_signal", "wmd_instances", "wmd_close"} =>
          \A k \in 1..Len(cur.ports) : cur.ports[k].direction \in Directed
    /\ \A i \in 1..Len(lines) : lines[i].text[1] \notin {"NO_DIRECTION", "None"}
    /\ PortRaised =>
          /\ cur.ports[num].direction \notin Directed
          /\ \A k \in 1..(num - 1) : cur.ports[k].direction \in Directed
          /\ Len(lines) >= num
          /\ lines[Len(lines) - (num - 1)].text = <<"( ">>
          /\ \A k \in 1..(num - 1) :
                DeclName(lines[Len(lines) - (num - 1) + k].text) = cur.ports[k].signal.name

C7_Witness ==
    /\ PortRaised
    /\ num >= 2
    /\ cur.ports[num].direction = "NONE"
    /\ lines[Len(lines)].text[1] \in DirKeywords

\* ------------------------------------------------------------- C8
Supported == {"integer", "double", "string"}

\* C8 as stated: the parameter-declaration formatter fails for a parameter whose
\* value kind is not integer, double or string, so the parameter loop never gets
\* past such a parameter.
C8_AsStated ==
    pc = "wmd_param" =>
        \A k \in 1..(num - 1) : cur.default_parameters[k].param.kind \in Supported

\* ------------------------------------------------------------- C10
\* C10: with K >= 1 overrides the override block is '#( ', then K lines
\* 'name=value ' in the instance's insertion order, none with a comma, then ') ';
\* with K = 0 the marker '// No parameters ' follows the target's name.
C10_OverrideBlock ==
    pc = "wi_name" =>
        LET k == Len(pinst.parameters)
            last == Len(lines)
        IN  IF k = 0
            THEN /\ lines[last].text = <<"// No parameters ">>
                 /\ lines[last - 1].text = <<target.module_name>>
            ELSE /\ last >= k + 3
                 /\ lines[last].text = <<") ">>
                 /\ lines[last - k - 1].text = <<"#( ">>
                 /\ lines[last - k - 2].text = <<target.module_name>>
                 /\ \A j \in 1..k :
                      LET t == lines[last - k - 1 + j].text
                      IN  /\ t = <<pinst.parameters[j].name, "=">>
                                 \o get_param_value(pinst.parameters[j].value) \o <<" ">>
                          /\ \A x \in 1..Len(t) : t[x] # ","

C10_Witness ==
    /\ pc = "wi_name"
    /\ Len(pinst.parameters) >= 2
    /\ Len(target.module.ports) >= 1

====
